---- MODULE Spec2Model ----
(***************************************************************************)
(* Model of the email IMAP/SMTP proxy (src/index.js).                      *)
(*                                                                         *)
(* One request is in progress at a time.  A handler runs synchronously     *)
(* from one `await` to the next, so the position pc names the protocol     *)
(* call the handler is suspended on, and each action is "the awaited call  *)
(* settles (resolves or rejects) and the handler runs on to its next       *)
(* await or to its end".  The mail server's mailbox outlives the requests. *)
(***************************************************************************)
EXTENDS Integers, Sequences, FiniteSets, TLC

\* ---- bounds of the model ------------------------------------------------
MaxUid == 2          \* messages on the server carry the uids 1..MaxUid
MaxPage == 2         \* numeric limit / offset inputs range over -1..MaxPage
MaxTotal == 5        \* paging taken alone: mailbox totals 0..MaxTotal (and 100)
MaxLimit == 3        \* paging taken alone: limits 1..MaxLimit (and 30)
MaxOffset == 6       \* paging taken alone: first offsets 0..MaxOffset
MaxExtra == 2        \* snippet taken alone: bodies of SnippetLength + 1..MaxExtra
MaxLead == 2         \* snippet taken alone: 0..MaxLead leading blank characters

\* ---- program constants --------------------------------------------------
DefaultLimit == 30
DefaultOffset == 0
SnippetLength == 200

VARIABLES
  mailbox,      \* server: uid -> [folder, seen, flagged]
  req,          \* req.body of the request in progress
  pc,           \* the await the handler is suspended on, or "idle" / "done"
  calls,        \* protocol calls issued by the request so far, in order
  connected,    \* the request's client has an open session
  lockHeld,     \* the request holds its mailbox lock
  responses,    \* res.json(...) invocations of the request, in order
  prevRead,     \* history: the read flag written by the preceding update
  calc          \* a computation of the handlers taken alone: inputs and results

vars ==
  <<mailbox, req, pc, calls, connected, lockHeld, responses, prevRead, calc>>

UIDs == 1..MaxUid
Folders == {"INBOX", "Archive"}

\* ---- JavaScript values and arithmetic -----------------------------------
\* A JSON input is absent (undefined), a number, or a non-numeric text.
Undef == [kind |-> "undef", v |-> 0]
Num(n) == [kind |-> "num", v |-> n]
Text == [kind |-> "text", v |-> 0]
NaN == [kind |-> "nan", v |-> 0]

\* ToNumber: undefined and non-numeric text coerce to NaN.
ToNumber(x) == IF x.kind = "num" THEN x ELSE NaN

JsSub(a, b) ==
  LET x == ToNumber(a)
      y == ToNumber(b)
  IN IF x.kind = "num" /\ y.kind = "num" THEN Num(x.v - y.v) ELSE NaN

JsAdd(a, b) ==
  LET x == ToNumber(a)
      y == ToNumber(b)
  IN IF x.kind = "num" /\ y.kind = "num" THEN Num(x.v + y.v) ELSE NaN

\* Math.max: NaN if either argument is NaN.
MathMax(a, b) ==
  LET x == ToNumber(a)
      y == ToNumber(b)
  IN IF x.kind = "num" /\ y.kind = "num"
       THEN (IF x.v >= y.v THEN x ELSE y)
       ELSE NaN

\* Destructuring default: `name = d` applies only when the field is undefined.
OrDefault(x, d) == IF x.kind = "undef" THEN d ELSE x

\* ---- parseInt -------------------------------------------------------------
Digits == <<"0", "1", "2", "3", "4", "5", "6", "7", "8", "9">>
IsDigit(c) == \E i \in 1..10 : Digits[i] = c
DigitVal(c) == (CHOOSE i \in 1..10 : Digits[i] = c) - 1

RECURSIVE DigitPrefix(_, _)
\* value of the longest digit prefix of s, continuing from acc
DigitPrefix(s, acc) ==
  IF s = <<>> \/ ~IsDigit(Head(s)) THEN acc
  ELSE DigitPrefix(Tail(s), acc * 10 + DigitVal(Head(s)))

RECURSIVE SkipSpace(_)
SkipSpace(s) == IF s # <<>> /\ Head(s) = " " THEN SkipSpace(Tail(s)) ELSE s

\* parseInt(s): leading blanks skipped, then the longest digit prefix;
\* NaN when there is none.  (An absent email_id is the text "undefined".)
ParseInt(s) ==
  LET t == SkipSpace(s)
  IN IF t = <<>> \/ ~IsDigit(Head(t)) THEN NaN ELSE Num(DigitPrefix(t, 0))

\* ---- the mail server ------------------------------------------------------
InFolder(f) == {u \in UIDs : mailbox[u].folder = f}

\* status(folder).messages
Total(f) == Cardinality(InFolder(f))

\* the message with sequence number i of folder f
SeqToUid(f, i) ==
  CHOOSE u \in InFolder(f) : Cardinality({w \in InFolder(f) : w <= u}) = i


\* flags / move act on the message with that uid in the selected mailbox
\* (INBOX); a uid naming no message there changes nothing.
Addressed(uid) == IF uid.kind = "num" THEN {uid.v} \cap InFolder("INBOX") ELSE {}

SetFlag(uid, flag, b) ==
  [u \in UIDs |->
     IF u \in Addressed(uid)
       THEN (IF flag = "\\Seen" THEN [mailbox[u] EXCEPT !.seen = b]
             ELSE [mailbox[u] EXCEPT !.flagged = b])
       ELSE mailbox[u]]

MoveTo(uid, dest) ==
  [u \in UIDs |-> IF u \in Addressed(uid) THEN [mailbox[u] EXCEPT !.folder = dest]
                  ELSE mailbox[u]]

\* the mailbox after the server has carried out the call c
Effect(c) ==
  CASE c.op = "messageFlagsAdd" -> SetFlag(c.lo, c.arg, TRUE)
    [] c.op = "messageFlagsRemove" -> SetFlag(c.lo, c.arg, FALSE)
    [] c.op = "messageMove" -> MoveTo(c.lo, c.arg)
    [] OTHER -> mailbox

\* ---- requests -------------------------------------------------------------
NoConnection == [present |-> FALSE, imap_host |-> "", smtp_host |-> ""]
NoHosts == [present |-> TRUE, imap_host |-> "", smtp_host |-> ""]
FullConnection ==
  [present |-> TRUE, imap_host |-> "imap.example", smtp_host |-> "smtp.example"]
Connections == {NoConnection, NoHosts, FullConnection}

PageInputs == {Undef, Text} \cup {Num(n) : n \in -1..MaxPage}

EmailIds ==
  {<<Digits[u + 1]>> : u \in UIDs}
    \cup {<<"9">>, <<"1", "a">>, <<"a", "1">>, <<" ", "2">>, <<>>}

Optional == {"absent", "true", "false"}

BlankReq ==
  [route |-> "none", connection |-> NoConnection, folder |-> "absent",
   limit |-> Undef, offset |-> Undef, email_id |-> <<>>,
   is_read |-> "absent", is_starred |-> "absent", move_to_folder |-> "absent",
   to |-> "", subject |-> ""]

TestReqs ==
  {[BlankReq EXCEPT !.route = "test", !.connection = c] : c \in Connections}

FoldersReqs ==
  {[BlankReq EXCEPT !.route = "folders", !.connection = c] : c \in Connections}

\* (a request refused for its connection is refused before any other field
\* is read: those requests vary the connection only)
FetchReqs ==
  {[BlankReq EXCEPT !.route = "fetch", !.connection = FullConnection,
                    !.folder = f, !.limit = l, !.offset = o] :
     f \in {"absent", "Archive"}, l \in PageInputs, o \in PageInputs}
    \cup {[BlankReq EXCEPT !.route = "fetch", !.connection = c] :
            c \in Connections}

SendReqs ==
  {[BlankReq EXCEPT !.route = "send", !.connection = c, !.to = t, !.subject = s] :
     c \in Connections, t \in {"", "a@x"}, s \in {"", "hi"}}

UpdateReqs ==
  {[BlankReq EXCEPT !.route = "update", !.connection = FullConnection,
                    !.email_id = e, !.is_read = r, !.is_starred = s,
                    !.move_to_folder = m] :
     e \in EmailIds, r \in Optional, s \in Optional,
     m \in {"absent", "Archive"}}
    \cup {[BlankReq EXCEPT !.route = "update", !.connection = c,
                           !.email_id = e] :
            c \in Connections, e \in {<<"1">>, <<"a", "1">>}}

\* (mutant: only the connection object is looked for, not its imap_host)
ConnectionObjectOnly(r) == ~r.connection.present

\* !connection?.imap_host
NoImapHost(r) == ~r.connection.present \/ r.connection.imap_host = ""

\* ---- the call log and the responses ---------------------------------------
Call(op, arg, lo, hi) ==
  [op |-> op, arg |-> arg, lo |-> lo, hi |-> hi, res |-> "pending"]

\* the awaited call (the last one issued) resolves ("ok") or rejects ("err")
Settle(cs, r) == [cs EXCEPT ![Len(cs)].res = r]

\* the handler issues the next call and suspends on it
Issue(cs, c) == Append(cs, c)

ConnectCall == Call("connect", "", NaN, NaN)
ListCall == Call("list", "", NaN, NaN)
LogoutCall == Call("logout", "", NaN, NaN)
LockCall(f) == Call("getMailboxLock", f, NaN, NaN)
StatusCall(f) == Call("status", f, NaN, NaN)
FetchCall(lo, hi) == Call("fetch", "", lo, hi)
SendCall == Call("sendMail", "", NaN, NaN)

\* lock.release() is synchronous
Release(cs) == Append(cs, [Call("release", "", NaN, NaN) EXCEPT !.res = "ok"])

Resp(status, kind, emails, total) ==
  [status |-> status, kind |-> kind, emails |-> emails, total |-> total]

BadRequest == Resp(400, "error", <<>>, 0)
BadGateway == Resp(502, "error", <<>>, 0)

\* History kept for the round trip of the read flag: the is_read value that
\* the immediately preceding request, a successful update, wrote to a uid
\* that still names a message of INBOX, and the flag it left.  It is kept
\* while the next request is an update of the read flag of the same uid.
NoPrev == [uid |-> 0, val |-> "absent", seen |-> FALSE]

Remember(r) ==
  IF /\ r.route = "update"
     /\ ~NoImapHost(r)
     /\ r.is_read # "absent"
     /\ ParseInt(r.email_id) = Num(prevRead.uid)
    THEN prevRead
    ELSE NoPrev

LastWrite ==
  LET uid == ParseInt(req.email_id)
  IN IF /\ req.route = "update"
        /\ responses = <<Resp(200, "updated", <<>>, 0)>>
        /\ req.is_read # "absent"
        /\ Addressed(uid) # {}
       THEN [uid |-> uid.v, val |-> req.is_read, seen |-> mailbox[uid.v].seen]
       ELSE NoPrev

\* in the handlers' specification no computation is taken alone
NoCalc == [fn |-> "none"]

Init ==
  /\ mailbox \in [UIDs -> [folder : Folders, seen : BOOLEAN, flagged : BOOLEAN]]
  /\ req = BlankReq
  /\ pc = "idle"
  /\ calls = <<>>
  /\ connected = FALSE
  /\ lockHeld = FALSE
  /\ responses = <<>>
  /\ prevRead = NoPrev
  /\ calc = NoCalc

\* A request arrives: a new client, no call issued and nothing sent yet.
\* invalid: the handler answers 400 and returns; else it issues `first`.
Enter(r, invalid, first, site) ==
  /\ pc = "idle"
  /\ req' = r
  /\ prevRead' = Remember(r)
  /\ connected' = FALSE
  /\ lockHeld' = FALSE
  /\ UNCHANGED <<mailbox, calc>>
  /\ IF invalid
       THEN /\ responses' = <<BadRequest>>
            /\ calls' = <<>>
            /\ pc' = "done"
       ELSE /\ responses' = <<>>
            /\ calls' = <<first>>
            /\ pc' = site

\* catch (err) { res.status(502).json(...) } after the log became cs
Catch(cs) ==
  /\ calls' = cs
  /\ responses' = Append(responses, BadGateway)
  /\ pc' = "done"

\* ---- POST /test -----------------------------------------------------------
TestRequest ==
  \E r \in TestReqs : Enter(r, NoImapHost(r), ConnectCall, "connect")

TestConnect ==
  /\ req.route = "test" /\ pc = "connect"
  /\ UNCHANGED <<mailbox, req, prevRead, calc, lockHeld>>
  /\ \/ /\ connected' = TRUE
        /\ calls' = Issue(Settle(calls, "ok"), ListCall)
        /\ pc' = "list"
        /\ UNCHANGED responses
     \/ /\ UNCHANGED connected
        /\ Catch(Settle(calls, "err"))

TestList ==
  /\ req.route = "test" /\ pc = "list"
  /\ UNCHANGED <<mailbox, req, prevRead, calc, lockHeld, connected>>
  /\ \/ /\ calls' = Issue(Settle(calls, "ok"), LogoutCall)
        /\ pc' = "logout"
        /\ UNCHANGED responses
     \/ Catch(Settle(calls, "err"))

TestLogout ==
  /\ req.route = "test" /\ pc = "logout"
  /\ UNCHANGED <<mailbox, req, prevRead, calc, lockHeld>>
  /\ \/ /\ connected' = FALSE
        /\ calls' = Settle(calls, "ok")
        /\ responses' = Append(responses, Resp(200, "connected", <<>>, 0))
        /\ pc' = "done"
     \/ /\ UNCHANGED connected
        /\ Catch(Settle(calls, "err"))

\* ---- POST /folders --------------------------------------------------------
FoldersRequest ==
  \E r \in FoldersReqs : Enter(r, NoImapHost(r), ConnectCall, "connect")

FoldersConnect ==
  /\ req.route = "folders" /\ pc = "connect"
  /\ UNCHANGED <<mailbox, req, prevRead, calc, lockHeld>>
  /\ \/ /\ connected' = TRUE
        /\ calls' = Issue(Settle(calls, "ok"), ListCall)
        /\ pc' = "list"
        /\ UNCHANGED responses
     \/ /\ UNCHANGED connected
        /\ Catch(Settle(calls, "err"))

FoldersList ==
  /\ req.route = "folders" /\ pc = "list"
  /\ UNCHANGED <<mailbox, req, prevRead, calc, lockHeld, connected>>
  /\ \/ /\ calls' = Issue(Settle(calls, "ok"), LogoutCall)
        /\ pc' = "logout"
        /\ UNCHANGED responses
     \/ Catch(Settle(calls, "err"))

FoldersLogout ==
  /\ req.route = "folders" /\ pc = "logout"
  /\ UNCHANGED <<mailbox, req, prevRead, calc, lockHeld>>
  /\ \/ /\ connected' = FALSE
        /\ calls' = Settle(calls, "ok")
        /\ responses' = Append(responses, Resp(200, "folders", <<>>, 0))
        /\ pc' = "done"
     \/ /\ UNCHANGED connected
        /\ Catch(Settle(calls, "err"))

\* ---- POST /fetch ----------------------------------------------------------
\* folder = "INBOX" by default
FolderOf(r) == IF r.folder = "absent" THEN "INBOX" ELSE r.folder

\* (mutant: the limit is added instead of subtracted)
RangeStartLimitAdded(total, limit, offset) ==
  MathMax(Num(1), JsAdd(JsAdd(JsSub(Num(total), offset), limit), Num(1)))

\* (mutant: the + 1 of the inclusive range is missing)
RangeStartOffByOne(total, limit, offset) ==
  MathMax(Num(1), JsSub(JsSub(Num(total), offset), limit))

RangeStart(total, limit, offset) ==
  MathMax(Num(1), JsAdd(JsSub(JsSub(Num(total), offset), limit), Num(1)))

\* (mutant: the end is not clamped to 1)
RangeEndUnclamped(total, offset) == JsSub(Num(total), offset)

RangeEnd(total, offset) == MathMax(Num(1), JsSub(Num(total), offset))

Min2(a, b) == IF a <= b THEN a ELSE b
Max2(a, b) == IF a >= b THEN a ELSE b

\* The messages the server streams for the sequence set lo:hi of folder f,
\* oldest first: those of min(lo,hi)..max(lo,hi) that exist; none when a
\* bound is not a number.
StreamedOf(total, lo, hi) ==
  IF lo.kind = "num" /\ hi.kind = "num"
    THEN LET a == Max2(1, Min2(lo.v, hi.v))
             b == Min2(total, Max2(lo.v, hi.v))
         IN [k \in 1..Max2(0, b - a + 1) |-> a + k - 1]
    ELSE <<>>

Streamed(f, lo, hi) == StreamedOf(Total(f), lo, hi)

\* one element of `emails` (the fields the claims speak of)
Record(f, i) ==
  LET u == SeqToUid(f, i)
  IN [seq |-> i, uid |-> u, is_read |-> mailbox[u].seen,
      is_starred |-> mailbox[u].flagged]

\* (mutant: the list is left in the order of retrieval)
NotReversed(s) == s

Reverse(s) == [i \in 1..Len(s) |-> s[Len(s) + 1 - i]]

FetchRequest ==
  \E r \in FetchReqs : Enter(r, NoImapHost(r), ConnectCall, "connect")

FetchConnect ==
  /\ req.route = "fetch" /\ pc = "connect"
  /\ UNCHANGED <<mailbox, req, prevRead, calc, lockHeld>>
  /\ \/ /\ connected' = TRUE
        /\ calls' = Issue(Settle(calls, "ok"), LockCall(FolderOf(req)))
        /\ pc' = "lock"
        /\ UNCHANGED responses
     \/ /\ UNCHANGED connected
        /\ Catch(Settle(calls, "err"))

FetchLock ==
  /\ req.route = "fetch" /\ pc = "lock"
  /\ UNCHANGED <<mailbox, req, prevRead, calc, connected>>
  /\ \/ /\ lockHeld' = TRUE
        /\ calls' = Issue(Settle(calls, "ok"), StatusCall(FolderOf(req)))
        /\ pc' = "status"
        /\ UNCHANGED responses
     \/ /\ UNCHANGED lockHeld
        /\ Catch(Settle(calls, "err"))

\* (mutant: no check of total === 0, the range 1:1 is fetched)
FetchEmptyFetches(f) ==
  /\ calls' = Issue(Settle(calls, "ok"), FetchCall(Num(1), Num(1)))
  /\ pc' = "fetch"
  /\ UNCHANGED <<lockHeld, responses>>

\* (mutant: the early return sends nothing)
FetchEmptySilent(f) ==
  /\ calls' = Release(Settle(calls, "ok"))
  /\ lockHeld' = FALSE
  /\ pc' = "done"
  /\ UNCHANGED responses

\* status resolved with total = 0: respond, `finally` releases, return
FetchEmpty(f) ==
  /\ responses' = Append(responses, Resp(200, "emails", <<>>, 0))
  /\ calls' = Release(Settle(calls, "ok"))
  /\ lockHeld' = FALSE
  /\ pc' = "done"

FetchStatus ==
  /\ req.route = "fetch" /\ pc = "status"
  /\ UNCHANGED <<mailbox, req, prevRead, calc, connected>>
  /\ \/ LET f == FolderOf(req)
            total == Total(f)
            limit == OrDefault(req.limit, Num(DefaultLimit))
            offset == OrDefault(req.offset, Num(DefaultOffset))
            start == RangeStart(total, limit, offset)
            end == RangeEnd(total, offset)
        IN IF total = 0
             THEN FetchEmpty(f)
             ELSE /\ calls' = Issue(Settle(calls, "ok"), FetchCall(start, end))
                  /\ pc' = "fetch"
                  /\ UNCHANGED <<lockHeld, responses>>
     \/ /\ lockHeld' = FALSE
        /\ Catch(Release(Settle(calls, "err")))

\* the for-await loop over client.fetch(range) ends or throws
FetchStream ==
  /\ req.route = "fetch" /\ pc = "fetch"
  /\ UNCHANGED <<mailbox, req, prevRead, calc, connected>>
  /\ lockHeld' = FALSE
  /\ \/ LET f == FolderOf(req)
            c == calls[Len(calls)]
            got == Streamed(f, c.lo, c.hi)
            emails == Reverse([k \in 1..Len(got) |-> Record(f, got[k])])
        IN /\ responses' = Append(responses, Resp(200, "emails", emails, Total(f)))
           /\ calls' = Issue(Release(Settle(calls, "ok")), LogoutCall)
           /\ pc' = "logout"
     \/ Catch(Release(Settle(calls, "err")))

FetchLogout ==
  /\ req.route = "fetch" /\ pc = "logout"
  /\ UNCHANGED <<mailbox, req, prevRead, calc, lockHeld>>
  /\ \/ /\ connected' = FALSE
        /\ calls' = Settle(calls, "ok")
        /\ pc' = "done"
        /\ UNCHANGED responses
     \/ /\ UNCHANGED connected
        /\ Catch(Settle(calls, "err"))

\* ---- POST /send -----------------------------------------------------------
\* (mutant: the subject is not among the required fields)
SendInvalidNoSubject(r) ==
  \/ ~r.connection.present \/ r.connection.smtp_host = ""
  \/ r.to = ""

\* !connection?.smtp_host || !to || !subject
SendInvalid(r) ==
  \/ ~r.connection.present \/ r.connection.smtp_host = ""
  \/ r.to = ""
  \/ r.subject = ""

SendRequest ==
  \E r \in SendReqs : Enter(r, SendInvalid(r), SendCall, "sendMail")

SendMail ==
  /\ req.route = "send" /\ pc = "sendMail"
  /\ UNCHANGED <<mailbox, req, prevRead, calc, lockHeld, connected>>
  /\ \/ /\ calls' = Settle(calls, "ok")
        /\ responses' = Append(responses, Resp(200, "sent", <<>>, 0))
        /\ pc' = "done"
     \/ Catch(Settle(calls, "err"))

\* ---- POST /update ---------------------------------------------------------
\* (mutant: the move is issued before the flag calls)
MoveFirstOrder == <<"move", "read", "star">>

\* the mutation steps of the handler, in the order of the code
UpdateOrder == <<"read", "star", "move">>

\* (mutant: an absent field is treated as false instead of as unchanged)
RequestedAlways(r, step) == TRUE

\* is the step requested by the body?  (`!== undefined` / truthiness)
Requested(r, step) ==
  CASE step = "read" -> r.is_read # "absent"
    [] step = "star" -> r.is_starred # "absent"
    [] step = "move" -> r.move_to_folder # "absent"

\* (mutant: the read flag is added whatever is_read says)
ReadCallAlwaysAdd(r, uid) == Call("messageFlagsAdd", "\\Seen", uid, uid)

\* the call a step issues for the parsed uid
ReadCall(r, uid) ==
  Call(IF r.is_read = "true" THEN "messageFlagsAdd" ELSE "messageFlagsRemove",
       "\\Seen", uid, uid)

StarCall(r, uid) ==
  Call(IF r.is_starred = "true" THEN "messageFlagsAdd" ELSE "messageFlagsRemove",
       "\\Flagged", uid, uid)

MoveCall(r, uid) == Call("messageMove", r.move_to_folder, uid, uid)

StepCall(r, step, uid) ==
  CASE step = "read" -> ReadCall(r, uid)
    [] step = "star" -> StarCall(r, uid)
    [] step = "move" -> MoveCall(r, uid)

\* index of the first requested step after position k of UpdateOrder, or 0
NextStep(r, k) ==
  LET later == {j \in (k + 1)..Len(UpdateOrder) : Requested(r, UpdateOrder[j])}
  IN IF later = {} THEN 0 ELSE CHOOSE j \in later : \A i \in later : j <= i

\* (mutant: the lock is released after the first step instead of after all)
UpdateContinueReleasesEarly(cs, k) ==
  LET j == NextStep(req, k)
      uid == ParseInt(req.email_id)
  IN IF j # 0
       THEN /\ calls' = Issue(IF k = 0 THEN cs ELSE Release(cs),
                             StepCall(req, UpdateOrder[j], uid))
            /\ pc' = UpdateOrder[j]
            /\ lockHeld' = (k = 0)
            /\ UNCHANGED responses
       ELSE /\ calls' = Issue(Release(cs), LogoutCall)
            /\ pc' = "logout"
            /\ lockHeld' = FALSE
            /\ UNCHANGED responses

\* (mutant: logout is issued before the lock is released)
UpdateContinueLogoutFirst(cs, k) ==
  LET j == NextStep(req, k)
      uid == ParseInt(req.email_id)
  IN IF j # 0
       THEN /\ calls' = Issue(cs, StepCall(req, UpdateOrder[j], uid))
            /\ pc' = UpdateOrder[j]
            /\ lockHeld' = TRUE
            /\ UNCHANGED responses
       ELSE /\ calls' = Issue(cs, LogoutCall)
            /\ pc' = "logout"
            /\ lockHeld' = TRUE
            /\ UNCHANGED responses

\* The try block goes on after step k with the log cs: it suspends on the
\* next requested step, or leaves the block (`finally` releases the lock)
\* and suspends on logout.
UpdateContinue(cs, k) ==
  LET j == NextStep(req, k)
      uid == ParseInt(req.email_id)
  IN IF j # 0
       THEN /\ calls' = Issue(cs, StepCall(req, UpdateOrder[j], uid))
            /\ pc' = UpdateOrder[j]
            /\ lockHeld' = TRUE
            /\ UNCHANGED responses
       ELSE /\ calls' = Issue(Release(cs), LogoutCall)
            /\ pc' = "logout"
            /\ lockHeld' = FALSE
            /\ UNCHANGED responses

\* (mutant: no `finally`, a throw leaves the lock held)
UpdateThrowKeepsLock(cs) ==
  /\ lockHeld' = TRUE
  /\ Catch(cs)

\* a throw inside the try block: `finally` releases, `catch` answers 502
UpdateThrow(cs) ==
  /\ lockHeld' = FALSE
  /\ Catch(Release(cs))

Position(step) == CHOOSE k \in 1..Len(UpdateOrder) : UpdateOrder[k] = step

UpdateRequest ==
  \E r \in UpdateReqs : Enter(r, NoImapHost(r), ConnectCall, "connect")

UpdateConnect ==
  /\ req.route = "update" /\ pc = "connect"
  /\ UNCHANGED <<mailbox, req, prevRead, calc, lockHeld>>
  /\ \/ /\ connected' = TRUE
        /\ calls' = Issue(Settle(calls, "ok"), LockCall("INBOX"))
        /\ pc' = "lock"
        /\ UNCHANGED responses
     \/ /\ UNCHANGED connected
        /\ Catch(Settle(calls, "err"))

\* the lock is granted: parseInt(email_id), then the first requested step
UpdateLock ==
  /\ req.route = "update" /\ pc = "lock"
  /\ UNCHANGED <<mailbox, req, prevRead, calc, connected>>
  /\ \/ IF ParseInt(req.email_id).kind = "nan"
          THEN UpdateThrow(Settle(calls, "ok"))
          ELSE UpdateContinue(Settle(calls, "ok"), 0)
     \/ /\ UNCHANGED lockHeld
        /\ Catch(Settle(calls, "err"))

UpdateRead ==
  /\ req.route = "update" /\ pc = "read"
  /\ UNCHANGED <<req, prevRead, calc, connected>>
  /\ \/ /\ mailbox' = Effect(calls[Len(calls)])
        /\ UpdateContinue(Settle(calls, "ok"), Position("read"))
     \/ /\ UNCHANGED mailbox
        /\ UpdateThrow(Settle(calls, "err"))

UpdateStar ==
  /\ req.route = "update" /\ pc = "star"
  /\ UNCHANGED <<req, prevRead, calc, connected>>
  /\ \/ /\ mailbox' = Effect(calls[Len(calls)])
        /\ UpdateContinue(Settle(calls, "ok"), Position("star"))
     \/ /\ UNCHANGED mailbox
        /\ UpdateThrow(Settle(calls, "err"))

UpdateMove ==
  /\ req.route = "update" /\ pc = "move"
  /\ UNCHANGED <<req, prevRead, calc, connected>>
  /\ \/ /\ mailbox' = Effect(calls[Len(calls)])
        /\ UpdateContinue(Settle(calls, "ok"), Position("move"))
     \/ /\ UNCHANGED mailbox
        /\ UpdateThrow(Settle(calls, "err"))

UpdateLogout ==
  /\ req.route = "update" /\ pc = "logout"
  /\ UNCHANGED <<mailbox, req, prevRead, calc, lockHeld>>
  /\ \/ /\ connected' = FALSE
        /\ calls' = Settle(calls, "ok")
        /\ responses' = Append(responses, Resp(200, "updated", <<>>, 0))
        /\ pc' = "done"
     \/ /\ UNCHANGED connected
        /\ Catch(Settle(calls, "err"))

\* ---- between requests -----------------------------------------------------
\* The handler has returned: the request's client, lock and response objects
\* are dropped; only the server's mailbox lives on.
Finish ==
  /\ pc = "done"
  /\ pc' = "idle"
  /\ req' = BlankReq
  /\ prevRead' = LastWrite
  /\ calls' = <<>>
  /\ responses' = <<>>
  /\ connected' = FALSE
  /\ lockHeld' = FALSE
  /\ UNCHANGED <<mailbox, calc>>

Next ==
  \/ TestRequest
  \/ TestConnect
  \/ TestList
  \/ TestLogout
  \/ FoldersRequest
  \/ FoldersConnect
  \/ FoldersList
  \/ FoldersLogout
  \/ FetchRequest
  \/ FetchConnect
  \/ FetchLock
  \/ FetchStatus
  \/ FetchStream
  \/ FetchLogout
  \/ SendRequest
  \/ SendMail
  \/ UpdateRequest
  \/ UpdateConnect
  \/ UpdateLock
  \/ UpdateRead
  \/ UpdateStar
  \/ UpdateMove
  \/ UpdateLogout
  \/ Finish

Spec == Init /\ [][Next]_vars

\* Every protocol call in flight eventually resolves or rejects, and the
\* handler then runs on: the steps that resume a handler are taken whenever
\* they stay possible.  (No request has to arrive.)
Resume ==
  \/ TestConnect \/ TestList \/ TestLogout
  \/ FoldersConnect \/ FoldersList \/ FoldersLogout
  \/ FetchConnect \/ FetchLock \/ FetchStatus \/ FetchStream \/ FetchLogout
  \/ SendMail
  \/ UpdateConnect \/ UpdateLock \/ UpdateRead \/ UpdateStar \/ UpdateMove
  \/ UpdateLogout

FairSpec == Spec /\ WF_vars(Resume)

\* ---- the paging of /fetch taken alone ---------------------------------------
\* What the body of /fetch computes from status.messages, limit and offset
\* (range, retrieval, reversal), for a client that asks for page after page
\* of one mailbox: first at calc.offset, then limit further each time, as
\* long as the offset is below the total.
Totals == 0..MaxTotal \cup {100}
Limits == 1..MaxLimit \cup {30}
Offsets == 0..MaxOffset

\* the offset of the next page to ask for
NextOffset ==
  IF calc.pages = <<>> THEN calc.offset
  ELSE calc.pages[Len(calc.pages)].offset + calc.limit

\* the page the handler answers for offset o: the range it computes and,
\* unless total is 0, the sequence numbers of `emails` in their final order
PageAt(total, limit, o) ==
  LET start == RangeStart(total, Num(limit), Num(o))
      end == RangeEnd(total, Num(o))
  IN [offset |-> o, start |-> start, end |-> end,
      fetched |-> total # 0,
      seqs |-> IF total = 0 THEN <<>>
               ELSE Reverse(StreamedOf(total, start, end))]

InitRange ==
  /\ mailbox = [u \in UIDs |-> [folder |-> "INBOX", seen |-> FALSE, flagged |-> FALSE]]
  /\ req = BlankReq
  /\ pc = "idle"
  /\ calls = <<>>
  /\ connected = FALSE
  /\ lockHeld = FALSE
  /\ responses = <<>>
  /\ prevRead = NoPrev
  /\ \E t \in Totals, l \in Limits, o \in Offsets :
       calc = [fn |-> "page", total |-> t, limit |-> l, offset |-> o, pages |-> <<>>]

FetchPage ==
  /\ calc.pages = <<>> \/ NextOffset < calc.total
  /\ calc' = [calc EXCEPT
       !.pages = Append(@, PageAt(calc.total, calc.limit, NextOffset))]
  /\ UNCHANGED <<mailbox, req, pc, calls, connected, lockHeld, responses, prevRead>>

NextRange == FetchPage

SpecRange == InitRange /\ [][NextRange]_vars

\* ---- the snippet of /fetch taken alone --------------------------------------
\* bodyText.slice(0, 200).replace(/\n/g, " ").trim() on texts as sequences
\* of characters.
WhiteSpace == {" ", "\t", "\n", "\r"}

Slice(s, n) == SubSeq(s, 1, Min2(n, Len(s)))

ReplaceNewlines(s) == [i \in 1..Len(s) |-> IF s[i] = "\n" THEN " " ELSE s[i]]

\* (mutant: the result is not trimmed)
Untrimmed(s) == s

Trim(s) ==
  LET inked == {i \in 1..Len(s) : s[i] \notin WhiteSpace}
  IN IF inked = {} THEN <<>>
     ELSE SubSeq(s, CHOOSE i \in inked : \A j \in inked : i <= j,
                    CHOOSE i \in inked : \A j \in inked : i >= j)

Snippet(body) == Trim(ReplaceNewlines(Slice(body, SnippetLength)))

\* A body of len characters: lead times the character blank first, the
\* character last at position SnippetLength, a newline at position nl,
\* and "x" everywhere else.
Body(len, lead, blank, last, nl) ==
  [i \in 1..len |->
     CASE i = nl -> "\n"
       [] i # nl /\ i <= lead -> blank
       [] i # nl /\ i > lead /\ i = SnippetLength -> last
       [] OTHER -> "x"]

BodyLengths == {SnippetLength + k : k \in 1..MaxExtra} \cup {500}
NewlineAt ==
  {2, 100, SnippetLength - 1, SnippetLength, SnippetLength + 1}

InitSnippet ==
  /\ mailbox = [u \in UIDs |-> [folder |-> "INBOX", seen |-> FALSE, flagged |-> FALSE]]
  /\ req = BlankReq
  /\ pc = "idle"
  /\ calls = <<>>
  /\ connected = FALSE
  /\ lockHeld = FALSE
  /\ responses = <<>>
  /\ prevRead = NoPrev
  /\ \E len \in BodyLengths, lead \in 0..MaxLead, blank \in {" ", "\t"},
        last \in {"x", " ", "\r"}, nl \in NewlineAt :
       calc = [fn |-> "snippet", body |-> Body(len, lead, blank, last, nl),
               snippet |-> <<>>, done |-> FALSE]

TakeSnippet ==
  /\ ~calc.done
  /\ calc' = [calc EXCEPT !.snippet = Snippet(calc.body), !.done = TRUE]
  /\ UNCHANGED <<mailbox, req, pc, calls, connected, lockHeld, responses, prevRead>>

NextSnippet == TakeSnippet

SpecSnippet == InitSnippet /\ [][NextSnippet]_vars

\* ---- reading the call log ---------------------------------------------------
Issued(op) == \E i \in DOMAIN calls : calls[i].op = op
Succeeded(op) == \E i \in DOMAIN calls : calls[i].op = op /\ calls[i].res = "ok"
Rejected(op) == \E i \in DOMAIN calls : calls[i].op = op /\ calls[i].res = "err"
Count(op) == Cardinality({i \in DOMAIN calls : calls[i].op = op})
SomeCallFailed == \E i \in DOMAIN calls : calls[i].res = "err"
FlagOps == {"messageFlagsAdd", "messageFlagsRemove"}
BodyOps == {"status", "fetch", "messageMove"} \cup FlagOps
Updated == Resp(200, "updated", <<>>, 0)

\* ---- C1 -------------------------------------------------------------------
\* C1: a request whose connect succeeded never ends without logout having
\* been called, on any exit path.
TeardownOnEveryPath ==
  (pc = "done" /\ Succeeded("connect")) => Issued("logout")

\* the code on an empty mailbox: answered, lock released, never logged out
EmptyFetchLeavesSession ==
  /\ pc = "done" /\ req.route = "fetch"
  /\ responses = <<Resp(200, "emails", <<>>, 0)>>
  /\ connected /\ ~Issued("logout")

\* ---- C2 -------------------------------------------------------------------
\* C2: in fetch and update an acquired mailbox lock is released exactly once
\* before the request ends, on every exit path, and no lock is outstanding
\* after the request; a lock is never released twice or without being held.
LockReleasedOnce ==
  /\ Count("release") <= 1
  /\ Issued("release") => Succeeded("getMailboxLock")
  /\ lockHeld => (Succeeded("getMailboxLock") /\ ~Issued("release"))
  /\ (pc = "done" /\ req.route \in {"fetch", "update"}
        /\ Succeeded("getMailboxLock"))
       => (Count("release") = 1 /\ ~lockHeld)
  /\ pc \in {"done", "idle"} => ~lockHeld

\* an update whose flag call was rejected has ended with the lock released
LockReleasedAfterThrow ==
  /\ pc = "done" /\ req.route = "update"
  /\ \E i \in DOMAIN calls : calls[i].op \in FlagOps /\ calls[i].res = "err"
  /\ Count("release") = 1 /\ ~lockHeld

\* ---- C3 -------------------------------------------------------------------
\* C3: an update whose email_id does not parse as an integer is answered 400
\* and issues no protocol call at all.
BadIdIsConfigurationError ==
  (req.route = "update" /\ ParseInt(req.email_id).kind = "nan")
    => (calls = <<>> /\ (pc = "done" => responses = <<BadRequest>>))

\* the code on such an id: connected, lock granted and released, answered 502
BadIdAnswered502 ==
  /\ pc = "done" /\ req.route = "update"
  /\ ParseInt(req.email_id).kind = "nan"
  /\ Succeeded("connect") /\ Succeeded("getMailboxLock")
  /\ ~Issued("logout")
  /\ responses = <<BadGateway>>

\* ---- C4 -------------------------------------------------------------------
InvalidPage(x) == x.kind = "text" \/ (x.kind = "num" /\ x.v < 0)

\* C4: a fetch with a negative or non-numeric limit or offset is answered 400
\* and no sequence range is ever fetched for it.
InvalidPageRejected ==
  (req.route = "fetch" /\ (InvalidPage(req.limit) \/ InvalidPage(req.offset)))
    => (~Issued("fetch") /\ (pc = "done" => responses = <<BadRequest>>))

\* the code on a negative offset: a range whose end lies above the total
EndAboveTotal ==
  /\ req.route = "fetch" /\ pc = "fetch"
  /\ req.offset.kind = "num" /\ req.offset.v < 0
  /\ calls[Len(calls)].hi.kind = "num"
  /\ calls[Len(calls)].hi.v > Total(FolderOf(req))

\* ---- C5 -------------------------------------------------------------------
\* C5: the protocol steps of a request occur in the order connect, lock,
\* body operations, release, logout: connect is the first call, the lock
\* the second, every body operation lies between a granted lock and its
\* release, logout is the last call and comes after the release of any lock
\* that was granted, and a call is issued only when every earlier call has
\* settled.
StepOrder ==
  /\ \A i \in 1..(Len(calls) - 1) : calls[i].res # "pending"
  /\ \A i \in DOMAIN calls :
       /\ calls[i].op = "connect" => i = 1
       /\ i = 1 => calls[i].op \in {"connect", "sendMail"}
       /\ i > 1 => calls[1].op = "connect" /\ calls[1].res = "ok"
       /\ calls[i].op = "getMailboxLock" => i = 2
       /\ calls[i].op \in BodyOps =>
            /\ calls[2].op = "getMailboxLock" /\ calls[2].res = "ok"
            /\ \A k \in 1..i : calls[k].op \notin {"release", "logout"}
       /\ calls[i].op = "release" =>
            calls[2].op = "getMailboxLock" /\ calls[2].res = "ok"
       /\ calls[i].op = "logout" =>
            /\ i = Len(calls)
            /\ Succeeded("getMailboxLock") =>
                 \E k \in 3..(i - 1) : calls[k].op = "release"
            /\ ~lockHeld

\* an update that moved a message has logged out after releasing its lock
LogoutAfterRelease ==
  /\ pc = "done" /\ req.route = "update"
  /\ Succeeded("messageMove") /\ Issued("release") /\ Succeeded("logout")

\* ---- C6 -------------------------------------------------------------------
\* C6: when a protocol call of a request fails, no further operation step is
\* issued (only the lock release follows), no call is issued twice, and the
\* request is answered with 502.
NoContinuationAfterFailure ==
  /\ \A i, j \in DOMAIN calls :
       i < j => ~(calls[i].op = calls[j].op /\ calls[i].arg = calls[j].arg)
  /\ \A i, j \in DOMAIN calls :
       (i < j /\ calls[i].res = "err") => calls[j].op = "release"
  /\ (pc = "done" /\ SomeCallFailed) => responses = <<BadGateway>>

\* the code when logout is rejected in fetch: the success payload was sent
\* before, and the catch block invokes res.json a second time
FetchLogoutFailureAfter200 ==
  /\ pc = "done" /\ req.route = "fetch" /\ Rejected("logout")
  /\ Len(responses) = 2
  /\ responses[1].status = 200 /\ responses[2].status = 502

\* ---- C7 -------------------------------------------------------------------
\* C7: in an update the mutation calls are issued in the order read flag,
\* starred flag, move: no flag call follows the move, the starred-flag call
\* never precedes the read-flag call, and the move is issued only after
\* every requested flag call for the same uid has succeeded.
FlagsBeforeMove ==
  /\ \A i, j \in DOMAIN calls :
       i < j =>
         /\ ~(calls[i].op = "messageMove" /\ calls[j].op \in FlagOps)
         /\ ~(calls[i].arg = "\\Flagged" /\ calls[j].arg = "\\Seen")
  /\ \A i \in DOMAIN calls :
       calls[i].op = "messageMove" =>
         /\ req.is_read # "absent" =>
              \E j \in 1..(i - 1) :
                /\ calls[j].arg = "\\Seen" /\ calls[j].res = "ok"
                /\ calls[j].lo = calls[i].lo
         /\ req.is_starred # "absent" =>
              \E j \in 1..(i - 1) :
                /\ calls[j].arg = "\\Flagged" /\ calls[j].res = "ok"
                /\ calls[j].lo = calls[i].lo

\* an update asking for both flags and a move has carried out all three
AllThreeApplied ==
  /\ pc = "done" /\ req.route = "update" /\ responses = <<Updated>>
  /\ req.is_read # "absent" /\ req.is_starred # "absent"
  /\ Succeeded("messageMove")

\* ---- C8 -------------------------------------------------------------------
CallsOn(cs, arg) == {i \in DOMAIN cs : cs[i].arg = arg}
MoveCalls(cs) == {i \in DOMAIN cs : cs[i].op = "messageMove"}

\* the uid the update in progress addresses
UpdateOf(u) == req.route = "update" /\ ParseInt(req.email_id) = Num(u)

\* One step keeps the frame of an update: a field that is absent has no
\* call, and a message's read flag / starred flag / folder changes only in
\* the step of a present is_read / is_starred / move_to_folder, for the
\* message with the request's uid.
KeepsFrame ==
  /\ req'.is_read = "absent" => CallsOn(calls', "\\Seen") = {}
  /\ req'.is_starred = "absent" => CallsOn(calls', "\\Flagged") = {}
  /\ req'.move_to_folder = "absent" => MoveCalls(calls') = {}
  /\ \A u \in UIDs :
       /\ mailbox'[u].seen # mailbox[u].seen =>
            /\ UpdateOf(u) /\ req.is_read # "absent" /\ pc = "read"
            /\ mailbox'[u].seen = (req.is_read = "true")
       /\ mailbox'[u].flagged # mailbox[u].flagged =>
            /\ UpdateOf(u) /\ req.is_starred # "absent" /\ pc = "star"
            /\ mailbox'[u].flagged = (req.is_starred = "true")
       /\ mailbox'[u].folder # mailbox[u].folder =>
            /\ UpdateOf(u) /\ req.move_to_folder # "absent" /\ pc = "move"
            /\ mailbox'[u].folder = req.move_to_folder

\* C8: in an update an absent field causes no protocol call and leaves its
\* state unchanged; a present field changes only its own flag, and only on
\* the message with the given uid.
AbsentFieldsAreNoOps == [][KeepsFrame]_vars

\* an update of the starred flag alone has succeeded on a message of INBOX
\* whose read flag is set, with a single mutation call
StarOnlyUpdate ==
  /\ pc = "done" /\ req.route = "update" /\ responses = <<Updated>>
  /\ req.is_read = "absent" /\ req.move_to_folder = "absent"
  /\ req.is_starred = "false"
  /\ \E u \in Addressed(ParseInt(req.email_id)) :
       mailbox[u].seen /\ ~mailbox[u].flagged
  /\ Len(calls) = 5

\* ---- C9 -------------------------------------------------------------------
\* C9: two successful updates of the read flag of the same message in a row:
\* isRead=true then isRead=false leaves \Seen cleared; the same value twice
\* leaves the flag as the first update left it; in general the flag is the
\* value written last, whatever it was before.
ReadFlagLastWriteWins ==
  /\ (pc = "done" /\ req.route = "update" /\ responses = <<Updated>>
        /\ prevRead.uid # 0)
       => LET now == mailbox[prevRead.uid].seen
          IN /\ (prevRead.val = "true" /\ req.is_read = "false") => ~now
             /\ prevRead.val = req.is_read => now = prevRead.seen
             /\ now = (req.is_read = "true")
  /\ prevRead.uid # 0 => prevRead.seen = (prevRead.val = "true")

\* isRead=true and then isRead=false have both succeeded on one message
SetThenCleared ==
  /\ pc = "done" /\ req.route = "update" /\ responses = <<Updated>>
  /\ prevRead.uid # 0 /\ prevRead.val = "true" /\ prevRead.seen
  /\ req.is_read = "false"
  /\ ~mailbox[prevRead.uid].seen

\* ---- C10 ------------------------------------------------------------------
ImapRoutes == {"test", "fetch", "folders", "update"}

\* C10: a test, fetch, folders or update request without a connection or
\* without imap_host issues no protocol call, connects no client and is
\* answered 400.
MissingHostRejected ==
  (req.route \in ImapRoutes
     /\ (~req.connection.present \/ req.connection.imap_host = ""))
    => /\ calls = <<>>
       /\ ~connected
       /\ pc = "done"
       /\ responses = <<BadRequest>>

\* an update whose connection names no imap_host has been answered 400
EmptyHostAnswered400 ==
  /\ req.route = "update" /\ req.connection.present
  /\ req.connection.imap_host = ""
  /\ pc = "done" /\ responses = <<BadRequest>> /\ calls = <<>>

\* ---- C11 ------------------------------------------------------------------
Sent == Resp(200, "sent", <<>>, 0)

\* C11: a send request lacking smtp_host, to or subject is answered 400 and
\* sendMail is never invoked for it; with all three present sendMail is
\* invoked once, its failure is answered 502 and its success {sent: true}.
SendContract ==
  req.route = "send" =>
    LET missing == \/ ~req.connection.present
                   \/ req.connection.smtp_host = ""
                   \/ req.to = ""
                   \/ req.subject = ""
    IN /\ missing =>
            (calls = <<>> /\ pc = "done" /\ responses = <<BadRequest>>)
       /\ ~missing =>
            /\ Len(calls) = 1 /\ calls[1].op = "sendMail"
            /\ calls[1].res = "pending" => (pc = "sendMail" /\ responses = <<>>)
            /\ calls[1].res = "err" => (pc = "done" /\ responses = <<BadGateway>>)
            /\ calls[1].res = "ok" => (pc = "done" /\ responses = <<Sent>>)

\* a send with everything but the subject has been answered 400
MissingSubjectAnswered400 ==
  /\ req.route = "send" /\ pc = "done"
  /\ req.connection.smtp_host # "" /\ req.to # "" /\ req.subject = ""
  /\ responses = <<BadRequest>> /\ calls = <<>>

\* ---- C12 ------------------------------------------------------------------
Pages == {calc.pages[i] : i \in DOMAIN calc.pages}

\* C12: for total >= 0, limit > 0, offset >= 0 the computed range has
\* 1 <= start <= end, and end <= total when total > 0.
RangeWellFormed ==
  \A p \in Pages :
    /\ p.start.kind = "num" /\ p.end.kind = "num"
    /\ 1 <= p.start.v
    /\ p.start.v <= p.end.v
    /\ calc.total > 0 => p.end.v <= calc.total

\* a page whose start is clamped to 1 and whose end lies inside the mailbox
StartClampedPage ==
  \E p \in Pages :
    /\ 0 < p.offset /\ p.offset < calc.total
    /\ calc.total - p.offset - calc.limit + 1 < 1
    /\ p.start.v = 1 /\ p.end.v < calc.total

\* ---- C13 ------------------------------------------------------------------
\* C13: when status reports 0 messages, fetch answers 200 with an empty
\* emails list and total 0, whatever limit and offset are, and never invokes
\* the protocol fetch in that request.
EmptyMailboxNotFetched ==
  (req.route = "fetch" /\ Succeeded("status") /\ Total(FolderOf(req)) = 0)
    => /\ ~Issued("fetch")
       /\ pc = "done"
       /\ responses = <<Resp(200, "emails", <<>>, 0)>>

\* a fetch of an empty mailbox with a limit and an offset has been answered
EmptyPageAnswered ==
  /\ req.route = "fetch" /\ pc = "done"
  /\ Succeeded("status") /\ Total(FolderOf(req)) = 0
  /\ req.limit = Num(2) /\ req.offset = Num(1)
  /\ responses = <<Resp(200, "emails", <<>>, 0)>>

\* ---- C14 ------------------------------------------------------------------
\* C14: for total > 0, limit > 0 and 0 <= offset < total the range fetched is
\* max(1, total - offset - limit + 1) .. total - offset (71..100 for total
\* 100, limit 30, offset 0) and the list answered holds exactly the
\* sequence numbers of that range, the highest first, strictly decreasing.
NewestFirstPage ==
  \A p \in Pages :
    (calc.total > 0 /\ p.offset < calc.total) =>
      LET lo == IF calc.total - p.offset - calc.limit + 1 >= 1
                  THEN calc.total - p.offset - calc.limit + 1 ELSE 1
          hi == calc.total - p.offset
      IN /\ p.start = Num(lo) /\ p.end = Num(hi)
         /\ p.fetched
         /\ Len(p.seqs) = hi - lo + 1
         /\ p.seqs[1] = hi
         /\ \A k \in 1..(Len(p.seqs) - 1) : p.seqs[k + 1] = p.seqs[k] - 1
         /\ (calc.total = 100 /\ calc.limit = 30 /\ p.offset = 0) =>
              (p.start.v = 71 /\ p.end.v = 100 /\ p.seqs[1] = 100 /\ p.seqs[30] = 71)

\* the first page of 30 of a mailbox of 100 has been computed
FirstPageOfHundred ==
  /\ calc.total = 100 /\ calc.limit = 30
  /\ \E p \in Pages : p.offset = 0 /\ Len(p.seqs) = 30

\* ---- C17 ------------------------------------------------------------------
\* C17: with offset >= total > 0 the range is exactly message 1 and the page
\* holds that oldest message; with offset = 0 and limit >= total > 0 the
\* range is the whole mailbox 1..total.
RangeEdgeCases ==
  \A p \in Pages :
    /\ (calc.total > 0 /\ p.offset >= calc.total) =>
         (p.start = Num(1) /\ p.end = Num(1) /\ p.seqs = <<1>>)
    /\ (calc.total > 0 /\ p.offset = 0 /\ calc.limit >= calc.total) =>
         (p.start = Num(1) /\ p.end = Num(calc.total)
            /\ Len(p.seqs) = calc.total)

\* a page asked for beyond the end of a mailbox of several messages
PageBeyondTheEnd ==
  \E p \in Pages :
    calc.total > 1 /\ p.offset > calc.total /\ p.seqs = <<1>>

\* ---- C20 ------------------------------------------------------------------
Covered(p) == p.start.v..p.end.v

\* the client started at offset 0 and has asked for every page below total
PagedThrough ==
  /\ calc.offset = 0 /\ calc.total > 0
  /\ calc.pages # <<>> /\ NextOffset >= calc.total

\* C20: for total > 0 and limit > 0 the ranges of the offsets 0, limit,
\* 2*limit, ... below total are pairwise disjoint, hold at most limit
\* sequence numbers each, and together are exactly 1..total.
PagesPartitionMailbox ==
  PagedThrough =>
    /\ \A i \in DOMAIN calc.pages : calc.pages[i].offset = (i - 1) * calc.limit
    /\ \A i, j \in DOMAIN calc.pages :
         i # j => Covered(calc.pages[i]) \cap Covered(calc.pages[j]) = {}
    /\ \A p \in Pages : Cardinality(Covered(p)) <= calc.limit
    /\ UNION {Covered(p) : p \in Pages} = 1..calc.total

\* a mailbox of 5 paged through by 2: three pages, the last of one message
FivePagedByTwo ==
  /\ PagedThrough /\ calc.total = 5 /\ calc.limit = 2
  /\ Len(calc.pages) = 3
  /\ Covered(calc.pages[3]) = {1}

\* ---- C15 ------------------------------------------------------------------
HasNewline(s) == \E i \in DOMAIN s : s[i] = "\n"
Ragged(s) == s # <<>> /\ (s[1] \in WhiteSpace \/ s[Len(s)] \in WhiteSpace)

\* C15 as claimed: the snippet of a body of more than 200 characters with
\* embedded newlines is exactly 200 characters long, has no newline and no
\* leading or trailing whitespace.
SnippetExactly200 ==
  (calc.done /\ Len(calc.body) > SnippetLength /\ HasNewline(calc.body))
    => /\ Len(calc.snippet) = SnippetLength
       /\ ~HasNewline(calc.snippet)
       /\ ~Ragged(calc.snippet)

\* C15 as amended: that snippet is at most 200 characters long, and exactly
\* 200 when neither the first nor the 200th character of the body is
\* whitespace (a newline included); it has no newline (\n) and no leading
\* or trailing whitespace.
SnippetAtMost200 ==
  (calc.done /\ Len(calc.body) > SnippetLength /\ HasNewline(calc.body))
    => /\ Len(calc.snippet) <= SnippetLength
       /\ (calc.body[1] \notin WhiteSpace
             /\ calc.body[SnippetLength] \notin WhiteSpace)
            => Len(calc.snippet) = SnippetLength
       /\ ~HasNewline(calc.snippet)
       /\ ~Ragged(calc.snippet)

\* the snippet of a body of 500 characters whose 200th character is a
\* newline has been taken: 199 characters
NewlineAtTheCut ==
  /\ calc.done /\ Len(calc.body) = 500
  /\ calc.body[SnippetLength] = "\n" /\ calc.body[1] = "x"
  /\ Len(calc.snippet) = SnippetLength - 1

\* ---- C16 ------------------------------------------------------------------
\* C16: status, fetch, messageFlagsAdd, messageFlagsRemove and messageMove
\* are in flight only while the session is connected and the mailbox lock
\* is held, and none is issued before the lock is granted, after it is
\* released or after logout.
MailboxCallsUnderLock ==
  /\ \A i \in DOMAIN calls :
       (calls[i].op \in BodyOps /\ calls[i].res = "pending")
         => (i = Len(calls) /\ connected /\ lockHeld)
  /\ \A i \in DOMAIN calls :
       calls[i].op \in BodyOps =>
         /\ \E k \in 1..(i - 1) :
              calls[k].op = "getMailboxLock" /\ calls[k].res = "ok"
         /\ \A k \in 1..(i - 1) : calls[k].op \notin {"release", "logout"}

\* the move of an update is in flight after both flag calls, lock held
MoveInFlightUnderLock ==
  /\ req.route = "update" /\ pc = "move"
  /\ calls[Len(calls)].op = "messageMove" /\ calls[Len(calls)].res = "pending"
  /\ Count("messageFlagsAdd") + Count("messageFlagsRemove") = 2
  /\ connected /\ lockHeld

\* ---- C18 ------------------------------------------------------------------
\* C18: a request is never responded to more than once: after a success
\* response no later failure of the same request leads to a second one.
AtMostOneResponse == Len(responses) <= 1

\* the code when logout is rejected in fetch: res.json has been invoked for
\* the emails and then again, in the catch block, for the 502
SecondResponseAfterEmails ==
  /\ req.route = "fetch" /\ pc = "done"
  /\ calls # <<>> /\ Len(responses) = 2
  /\ calls[Len(calls)].op = "logout" /\ calls[Len(calls)].res = "err"
  /\ responses[1].kind = "emails"
  /\ responses[Len(responses)] = BadGateway

\* ---- C19 ------------------------------------------------------------------
InProgress == pc \notin {"idle", "done"}

\* C19: if every protocol call eventually returns or fails, every request
\* eventually ends, and no request ends without a response having been
\* sent: a success payload, a 400 or a 502.
EveryRequestAnswered ==
  /\ [](pc = "done" =>
          /\ responses # <<>>
          /\ \A i \in DOMAIN responses : responses[i].status \in {200, 400, 502})
  /\ (InProgress ~> pc = "done")

\* an update has gone through every call and has been answered
UpdateAnsweredAtTheEnd ==
  /\ req.route = "update" /\ pc = "done"
  /\ Len(calls) = 7 /\ responses = <<Updated>>

====
